---- MODULE Spec2Model ----
(***************************************************************************)
(* Clony: the commit operation (clony/internals/commit.py) over the object *)
(* store, the reference files, HEAD, the index file and the working tree.  *)
(*                                                                         *)
(* Identifiers are modelled collision-free: the SHA-1 of a framed object   *)
(* is the tagged framed object itself, so that two identifiers are equal   *)
(* exactly when the framed bytes are equal.  File and directory names are  *)
(* naturals standing for their rank in lexicographic order.                *)
(***************************************************************************)
EXTENDS Naturals, Sequences, FiniteSets, TLC

(* ------------------------------ bounds -------------------------------- *)
\* how many make_commit calls a behaviour starts
MaxOps == 2
\* how many steps the environment takes (edits, staging, checkout)
MaxEdits == 3
\* how many lines an index file written from outside holds
MaxLines == 2

(* ----------------------------- universe ------------------------------- *)
Procs == {1, 2}
None == <<>>
GitDir == 0
\* a.txt and sub/run.sh
Paths == {<<1>>, <<3, 1>>}
\* the empty file and a file of one byte
FileData == {<<>>, <<1>>}
\* sub/run.sh carries the executable bit, a.txt does not
ModeOf(path) == IF path = <<3, 1>> THEN "100755" ELSE "100644"
Files(path) == [mode : {ModeOf(path)}, data : FileData]
NoFile == [mode |-> "absent", data |-> <<>>]
\* a name is the tuple of its "refs/" prefix and the rest
RefNames == {<<"refs/", "heads/main">>, <<"refs/", "heads/dev">>}
\* index lines read_index_file ignores: one token, three tokens
JunkLines == {<<"junk">>, <<"a", "b", "c">>}
NoIndex == [exists |-> FALSE, lines |-> <<>>]
Messages == {"first"}
Author == <<"Test Author", "test@example.com">>
\* an identifier that names no object of the store (test_commit_detached_head)
Bogus == <<"sha1", <<"unknown", 0, <<>>>>>>

VARIABLES
    wt,          \* working tree: path -> file, or NoFile
    indexFile,   \* .git/index: whether the file exists, and its lines (token tuples)
    objects,     \* .git/objects: identifier -> stored (compressed) bytes
    refs,        \* .git/refs/heads/*: name -> identifier, None when the file is missing
    HEAD,        \* .git/HEAD: <<"ref: ", name>> or an identifier
    clock,       \* wall clock, seconds
    pc,          \* position of each make_commit call
    message,     \* argument of the call
    tree_hash,   \* locals of make_commit
    parent_hash,
    commit_hash,
    result,      \* how the last call of the process ended: <<outcome, failing step>>
    ret,         \* the value it returned
    errors,      \* logger.error calls of the call
    pre,         \* the repository as the call found it
    nOps,
    nEdits

vars == <<wt, indexFile, objects, refs, HEAD, clock, pc, message, tree_hash,
          parent_hash, commit_hash, result, ret, errors, pre, nOps, nEdits>>

disk == <<wt, indexFile, objects, refs, HEAD>>
locals == <<message, tree_hash, parent_hash, commit_hash>>

(* --------------------------- object store ----------------------------- *)
calculate_sha1_hash(content) == <<"sha1", content>>

compress_content(content) == <<"zlib", content>>

decompress_content(stored) == stored[2]

frame(object_type, payload) == <<object_type, Len(payload), payload>>

ObjectId(object_type, payload) == calculate_sha1_hash(frame(object_type, payload))

\* the store after write_object_file(repo, payload, object_type)
write_object_file(store, payload, object_type) ==
    LET id == ObjectId(object_type, payload)
    IN  IF id \in DOMAIN store
        THEN store
        ELSE [i \in DOMAIN store \cup {id} |->
                 IF i \in DOMAIN store THEN store[i]
                 ELSE compress_content(frame(object_type, payload))]

\* the store after writing every <<type, payload>> of ws, one write at a time
RECURSIVE WriteAll(_, _)
WriteAll(store, ws) ==
    IF ws = {} THEN store
    ELSE LET w == CHOOSE x \in ws : TRUE
         IN  WriteAll(write_object_file(store, w[2], w[1]), ws \ {w})

(* --------------------------- tree builder ----------------------------- *)
IsPrefix(dir, path) == Len(dir) < Len(path) /\ SubSeq(path, 1, Len(dir)) = dir

IsFile(w, path) == path \in Paths /\ w[path] # NoFile

\* the names of the children of dir; the root also holds .git
ChildNames(w, dir) ==
    {p[Len(dir) + 1] : p \in {q \in Paths : w[q] # NoFile /\ IsPrefix(dir, q)}}
        \cup (IF dir = <<>> THEN {GitDir} ELSE {})

RECURSIVE Ascending(_)
Ascending(S) ==
    IF S = {} THEN <<>>
    ELSE LET m == CHOOSE x \in S : \A y \in S : x <= y
         IN  <<m>> \o Ascending(S \ {m})

Reverse(s) == [i \in 1..Len(s) |-> s[Len(s) + 1 - i]]

\* the order in which the filesystem enumerates dir: either way round
listdir(w, dir, rev) ==
    IF rev THEN Reverse(Ascending(ChildNames(w, dir)))
    ELSE Ascending(ChildNames(w, dir))

RECURSIVE InsertEntry(_, _)
InsertEntry(sorted, e) ==
    IF sorted = <<>> THEN <<e>>
    ELSE IF e[2] <= Head(sorted)[2] THEN <<e>> \o sorted
    ELSE <<Head(sorted)>> \o InsertEntry(Tail(sorted), e)

\* entries.sort(key=name)
RECURSIVE sort_entries(_)
sort_entries(entries) ==
    IF entries = <<>> THEN <<>>
    ELSE InsertEntry(sort_entries(Tail(entries)), Head(entries))

\* variant: the name of the file is hashed with its bytes
blob_payload_named(w, path) == path \o w[path].data

\* create_blob_object(repo, file): the payload is the bytes of the file
blob_payload(w, path) == w[path].data

create_blob_object(w, path) == ObjectId("blob", blob_payload(w, path))

RECURSIVE tree_payload(_, _, _)
tree_entry(w, dir, rev, name) ==
    LET path == dir \o <<name>>
    IN  IF IsFile(w, path)
        THEN <<w[path].mode, name, create_blob_object(w, path)>>
        ELSE <<"40000", name, ObjectId("tree", tree_payload(w, path, rev))>>

\* variant: the entries are kept in the order the filesystem lists them
tree_payload_unsorted(w, dir, rev) ==
    LET listed == SelectSeq(listdir(w, dir, rev), LAMBDA n : n # GitDir)
    IN  [i \in 1..Len(listed) |-> tree_entry(w, dir, rev, listed[i])]

\* the payload of the tree object of dir: its entries, .git skipped, sorted by name
tree_payload(w, dir, rev) ==
    LET listed == SelectSeq(listdir(w, dir, rev), LAMBDA n : n # GitDir)
    IN  sort_entries([i \in 1..Len(listed) |-> tree_entry(w, dir, rev, listed[i])])

\* create_tree_object(repo, dir): the identifier it returns
create_tree_object(w, dir, rev) == ObjectId("tree", tree_payload(w, dir, rev))

SubDirs(w, dir) ==
    {dir \o <<n>> : n \in {m \in ChildNames(w, dir) \ {GitDir} : ~IsFile(w, dir \o <<m>>)}}

\* every <<type, payload>> the walk of dir writes: blobs, subtrees, then the tree
RECURSIVE tree_writes(_, _, _)
tree_writes(w, dir, rev) ==
    {<<"blob", blob_payload(w, p)>> :
        p \in {q \in Paths : IsFile(w, q) /\ q = dir \o <<q[Len(q)]>>}}
        \cup UNION {tree_writes(w, d, rev) : d \in SubDirs(w, dir)}
        \cup {<<"tree", tree_payload(w, dir, rev)>>}

\* what a walk that fails part-way has written: the tree of dir is not among them,
\* and a subtree is written only after everything under it
PartialWalks(w, dir, rev) ==
    {ws \in SUBSET (tree_writes(w, dir, rev) \ {<<"tree", tree_payload(w, dir, rev)>>}) :
        \A d \in SubDirs(w, dir) :
            <<"tree", tree_payload(w, d, rev)>> \in ws => tree_writes(w, d, rev) \subseteq ws}

(* -------------------------- commit builder ---------------------------- *)
commit_payload(tree, parent, author, timestamp, msg) ==
    <<<<"tree", tree>>>>
        \o (IF parent = None THEN <<>> ELSE <<<<"parent", parent>>>>)
        \o <<<<"author", author, timestamp>>, <<"committer", author, timestamp>>,
             <<"", msg>>>>

\* create_commit_object(...): the identifier it returns
create_commit_object(tree, parent, author, timestamp, msg) ==
    ObjectId("commit", commit_payload(tree, parent, author, timestamp, msg))

(* ------------------------ reference resolver -------------------------- *)
SymbolicRef(name) == <<"ref: ", name>>

get_head_ref(head) == IF head[1] = "ref: " THEN head[2] ELSE head

\* head_ref.startswith("refs/")
startswith_refs(head_ref) == head_ref[1] = "refs/"

get_ref_hash(rs, ref_name) == rs[ref_name]

get_head_commit(head, rs) ==
    IF startswith_refs(get_head_ref(head))
    THEN get_ref_hash(rs, get_head_ref(head))
    ELSE get_head_ref(head)

update_ref(rs, ref_name, hash) == [rs EXCEPT ![ref_name] = hash]

(* ------------------------------ staging ------------------------------- *)
\* variant: a line of more than two tokens counts as an entry too
RECURSIVE read_lines_atleast(_, _)
read_lines_atleast(lines, index_dict) ==
    IF lines = <<>> THEN index_dict
    ELSE LET parts == Head(lines)
         IN  read_lines_atleast(Tail(lines),
                 IF Len(parts) >= 2
                 THEN [k \in DOMAIN index_dict \cup {parts[1]} |->
                          IF k = parts[1] THEN parts[2] ELSE index_dict[k]]
                 ELSE index_dict)

\* lines 41-49: for line in lines: parts = line.strip().split(); if len(parts) == 2:
\* index_dict[file_path] = sha1_hash
RECURSIVE read_lines(_, _)
read_lines(lines, index_dict) ==
    IF lines = <<>> THEN index_dict
    ELSE LET parts == Head(lines)
         IN  read_lines(Tail(lines),
                 IF Len(parts) = 2
                 THEN [k \in DOMAIN index_dict \cup {parts[1]} |->
                          IF k = parts[1] THEN parts[2] ELSE index_dict[k]]
                 ELSE index_dict)

\* read_index_file(index_file): path -> hash, for the lines of exactly two tokens
read_index_file(index) ==
    IF ~index.exists THEN <<>> ELSE read_lines(index.lines, <<>>)

\* stage_file(path): records the hash of the file's content under its path
stage_file(index, w, path) ==
    LET d == read_index_file(index)
        keys == DOMAIN d \cup {path}
        new == [k \in keys |-> IF k = path THEN create_blob_object(w, path) ELSE d[k]]
        RECURSIVE Lines(_)
        Lines(ks) == IF ks = {} THEN <<>>
                     ELSE LET k == CHOOSE x \in ks : TRUE
                          IN  <<<<k, new[k]>>>> \o Lines(ks \ {k})
    IN  [exists |-> TRUE, lines |-> Lines(keys)]

\* variant: the index file is left as it is
clear_staging_area_noop(index) == index

\* variant: the index file is removed
clear_staging_area_unlink(index) == NoIndex

\* clear_staging_area(repo): the index file is left in place, empty
clear_staging_area(index) == [exists |-> TRUE, lines |-> <<>>]

(* ------------------------------ state --------------------------------- *)
NoResult == <<"none", "">>

Blank(x) == [p \in Procs |-> x]

NoSnapshot ==
    [called |-> FALSE, found |-> FALSE, objects |-> <<>>, refs |-> <<>>,
     HEAD |-> None, indexFile |-> NoIndex, head |-> None, n |-> 0]

\* the repository as a call finds it, whether find_git_repo_path finds it, and
\* which call of the behaviour it is
Snapshot(found) ==
    [called |-> TRUE, found |-> found, objects |-> objects, refs |-> refs,
     HEAD |-> HEAD, indexFile |-> indexFile, head |-> get_head_commit(HEAD, refs),
     n |-> nOps + 1]

\* the repository after `clony init`, nothing staged, no call made
Init ==
    /\ wt = [p \in Paths |-> NoFile]
    /\ indexFile = NoIndex
    /\ objects = <<>>
    /\ refs = [n \in RefNames |-> None]
    /\ HEAD = SymbolicRef(<<"refs/", "heads/main">>)
    /\ clock = 0
    /\ pc = [p \in Procs |-> "idle"]
    /\ message = [p \in Procs |-> ""]
    /\ tree_hash = [p \in Procs |-> None]
    /\ parent_hash = [p \in Procs |-> None]
    /\ commit_hash = [p \in Procs |-> None]
    /\ result = [p \in Procs |-> NoResult]
    /\ ret = [p \in Procs |-> None]
    /\ errors = [p \in Procs |-> 0]
    /\ pre = [p \in Procs |-> NoSnapshot]
    /\ nOps = 0
    /\ nEdits = 0

Idle == \A p \in Procs : pc[p] = "idle"

\* a call takes the first free slot
FirstIdle(p) == pc[p] = "idle" /\ \A q \in Procs : q < p => pc[q] # "idle"

Commits(store) == {id \in DOMAIN store : id[2][1] = "commit"}

(* ---------------------------- make_commit ----------------------------- *)
\* variant: the error is logged where it is raised and again on the way out
Exit_LoggedTwice(p, outcome) ==
    /\ pc' = [pc EXCEPT ![p] = "idle"]
    /\ errors' = [errors EXCEPT ![p] = @ + 2]
    /\ result' = [result EXCEPT ![p] = outcome]

\* logger.error(...); sys.exit(1): the call is over
Exit(p, outcome) ==
    /\ pc' = [pc EXCEPT ![p] = "idle"]
    /\ errors' = [errors EXCEPT ![p] = @ + 1]
    /\ result' = [result EXCEPT ![p] = outcome]

\* variant: the handler puts the branch back to the parent it has read so far
Raise_Rollback(p, step) ==
    /\ Exit(p, <<"CommitFailed", step>>)
    /\ refs' = IF startswith_refs(get_head_ref(HEAD))
               THEN update_ref(refs, get_head_ref(HEAD), parent_hash[p])
               ELSE refs
    /\ UNCHANGED HEAD

\* lines 126-129, except Exception as e: logger.error(...); sys.exit(1).
\* The handler writes nothing: no reference is touched
Raise(p, step) ==
    /\ Exit(p, <<"CommitFailed", step>>)
    /\ UNCHANGED <<refs, HEAD>>

\* variant: the repository check does not end the call
Precheck_NoRepoExit(found, index) ==
    IF ~index.exists THEN "NothingStaged"
    ELSE IF DOMAIN read_index_file(index) = {} THEN "NothingStaged"
    ELSE "Committing"

\* variant: an index file that exists is taken to hold staged changes
Precheck_NoEmptyCheck(found, index) ==
    IF ~found THEN "RepositoryNotFound"
    ELSE IF ~index.exists THEN "NothingStaged"
    ELSE "Committing"

\* lines 71-94: the checks before anything is written.  sys.exit raises
\* SystemExit, which is no Exception: the handler of make_commit lets it pass
Precheck(found, index) ==
    IF ~found THEN "RepositoryNotFound"
    ELSE IF ~index.exists THEN "NothingStaged"
    ELSE IF DOMAIN read_index_file(index) = {} THEN "NothingStaged"
    ELSE "Committing"

\* lines 69-94: the call starts, looks for the repository and reads the index
Enter(p, msg, found) ==
    /\ FirstIdle(p)
    /\ nOps < MaxOps
    /\ nOps' = nOps + 1
    /\ message' = [message EXCEPT ![p] = msg]
    /\ tree_hash' = [tree_hash EXCEPT ![p] = None]
    /\ parent_hash' = [parent_hash EXCEPT ![p] = None]
    /\ commit_hash' = [commit_hash EXCEPT ![p] = None]
    /\ ret' = [ret EXCEPT ![p] = None]
    /\ pre' = [pre EXCEPT ![p] = Snapshot(found)]
    /\ IF Precheck(found, indexFile) = "Committing"
       THEN /\ pc' = [pc EXCEPT ![p] = "tree"]
            /\ errors' = [errors EXCEPT ![p] = 0]
            /\ result' = [result EXCEPT ![p] = NoResult]
       ELSE /\ pc' = [pc EXCEPT ![p] = "idle"]
            /\ errors' = [errors EXCEPT ![p] = 1]
            /\ result' = [result EXCEPT ![p] = <<Precheck(found, indexFile), "">>]
    /\ UNCHANGED <<disk, clock, nEdits>>

\* one call runs to completion before another may start
Start(p) ==
    /\ Idle
    /\ \E msg \in Messages, found \in BOOLEAN : Enter(p, msg, found)

Restrict(store, ids) == [i \in ids |-> store[i]]

\* variant: the handler deletes the objects the failed walk wrote
FailedWalkStore_Rollback(store, ws) ==
    Restrict(store, DOMAIN store \ {ObjectId(w[1], w[2]) : w \in ws})

\* lines 97 and 126-129: the store after a walk that failed having written ws;
\* the handler removes nothing
FailedWalkStore(store, ws) == WriteAll(store, ws)

\* variant: a staged path is committed with the content that was staged
WalkedTree_Staged(w, index_dict, rev) ==
    create_tree_object(
        [q \in Paths |-> IF q \in DOMAIN index_dict
                         THEN [mode |-> ModeOf(q), data |-> index_dict[q][2][3]]
                         ELSE w[q]], <<>>, rev)

\* lines 87 and 97: index_dict is read for the gate only; the walk is given the
\* repository path and nothing of the index
WalkedTree(w, index_dict, rev) == create_tree_object(w, <<>>, rev)

\* line 97: tree_hash = create_tree_object(repo_path, repo_path).  A walk that
\* fails leaves what it has written
BuildTree(p) ==
    /\ pc[p] = "tree"
    /\ \E rev \in BOOLEAN :
          \/ /\ objects' = WriteAll(objects, tree_writes(wt, <<>>, rev))
             /\ tree_hash' = [tree_hash EXCEPT ![p] =
                    WalkedTree(wt, read_index_file(indexFile), rev)]
             /\ pc' = [pc EXCEPT ![p] = "head"]
             /\ UNCHANGED <<errors, result, refs, HEAD>>
          \/ \E ws \in PartialWalks(wt, <<>>, rev) :
                /\ objects' = FailedWalkStore(objects, ws)
                /\ Raise(p, "tree")
                /\ UNCHANGED tree_hash
    /\ UNCHANGED <<wt, indexFile, clock, message, parent_hash, commit_hash, ret,
                   pre, nOps, nEdits>>

\* variant: the parent is never passed on
HeadParent_None(head, rs) == None

\* variant: get_head_ref is called in place of get_head_commit
HeadParent_Ref(head, rs) == get_head_ref(head)

\* line 100: the parent of the new commit is the commit the head resolves to
HeadParent(head, rs) == get_head_commit(head, rs)

\* line 100: parent_hash = get_head_commit(repo_path)
GetHead(p) ==
    /\ pc[p] = "head"
    /\ \/ /\ parent_hash' = [parent_hash EXCEPT ![p] = HeadParent(HEAD, refs)]
          /\ pc' = [pc EXCEPT ![p] = "commit"]
          /\ UNCHANGED <<errors, result, refs, HEAD>>
       \/ /\ Raise(p, "head")
          /\ UNCHANGED parent_hash
    /\ UNCHANGED <<wt, indexFile, objects, clock, message, tree_hash, commit_hash,
                   ret, pre, nOps, nEdits>>

\* variant: the commit is hashed but not written
CommitStore_HashOnly(store, payload) == store

\* lines 103-105: the store once create_commit_object has returned
CommitStore(store, payload) == write_object_file(store, payload, "commit")

\* lines 103-105: commit_hash = create_commit_object(...), stamped with the
\* wall clock, which has stood still or moved on a second since it was last read
BuildCommit(p) ==
    /\ pc[p] = "commit"
    /\ \/ \E now \in {clock, clock + 1} :
             LET payload == commit_payload(tree_hash[p], parent_hash[p], Author, now,
                                           message[p])
             IN  /\ clock' = now
                 /\ objects' = CommitStore(objects, payload)
                 /\ commit_hash' = [commit_hash EXCEPT ![p] =
                        create_commit_object(tree_hash[p], parent_hash[p], Author, now,
                                             message[p])]
                 /\ pc' = [pc EXCEPT ![p] = "ref"]
                 /\ UNCHANGED <<errors, result, refs, HEAD>>
       \/ /\ Raise(p, "commit")
          /\ UNCHANGED <<objects, commit_hash, clock>>
    /\ UNCHANGED <<wt, indexFile, message, tree_hash, parent_hash, ret, pre, nOps,
                   nEdits>>

\* variant: the branch written is always main
AdvancedRefs_Main(head, rs, hash) == update_ref(rs, <<"refs/", "heads/main">>, hash)

\* variant: compare-and-swap, the branch is written only while it still holds the
\* parent of the new commit
AdvancedRefs_CompareAndSwap(head, rs, hash) ==
    LET lines == hash[2][3]
        parents == {lines[i][2] : i \in {j \in 1..Len(lines) : lines[j][1] = "parent"}}
    IN  IF startswith_refs(get_head_ref(head))
           /\ parents = (IF rs[get_head_ref(head)] = None THEN {}
                         ELSE {rs[get_head_ref(head)]})
        THEN update_ref(rs, get_head_ref(head), hash)
        ELSE rs

\* lines 108-110: the branch files after the reference update
AdvancedRefs(head, rs, hash) ==
    IF startswith_refs(get_head_ref(head))
    THEN update_ref(rs, get_head_ref(head), hash)
    ELSE rs

\* variant: a detached HEAD is never rewritten
AdvancedHead_Never(head, hash) == head

\* lines 111-114: the HEAD file after the reference update (written as the hash
\* and a newline, which every reader strips)
AdvancedHead(head, hash) ==
    IF startswith_refs(get_head_ref(head)) THEN head ELSE hash

\* lines 107-114: the branch HEAD names is moved, or HEAD itself when detached
AdvanceRef(p) ==
    /\ pc[p] = "ref"
    /\ \/ /\ refs' = AdvancedRefs(HEAD, refs, commit_hash[p])
          /\ HEAD' = AdvancedHead(HEAD, commit_hash[p])
          /\ pc' = [pc EXCEPT ![p] = "clear"]
          /\ UNCHANGED <<errors, result>>
       \/ Raise(p, "ref")
    /\ UNCHANGED <<wt, indexFile, objects, clock, locals, ret, pre, nOps, nEdits>>

\* lines 116-124: clear the staging area and return the commit hash
ClearStaging(p) ==
    /\ pc[p] = "clear"
    /\ \/ /\ indexFile' = clear_staging_area(indexFile)
          /\ pc' = [pc EXCEPT ![p] = "idle"]
          /\ result' = [result EXCEPT ![p] = <<"Committed", "">>]
          /\ ret' = [ret EXCEPT ![p] = commit_hash[p]]
          /\ UNCHANGED <<errors, refs, HEAD>>
       \/ /\ Raise(p, "clear")
          /\ UNCHANGED <<indexFile, ret>>
    /\ UNCHANGED <<wt, objects, clock, locals, pre, nOps, nEdits>>

(* ---------------------------- environment ----------------------------- *)
\* what is remembered of the last call lasts until the repository is next
\* touched from outside
Forget ==
    /\ message' = Blank("")
    /\ tree_hash' = Blank(None)
    /\ parent_hash' = Blank(None)
    /\ commit_hash' = Blank(None)
    /\ result' = Blank(NoResult)
    /\ ret' = Blank(None)
    /\ errors' = Blank(0)
    /\ pre' = Blank(NoSnapshot)

Edit ==
    /\ Idle
    /\ nEdits < MaxEdits
    /\ nEdits' = nEdits + 1
    /\ Forget
    /\ UNCHANGED <<pc, nOps>>

\* the user writes or removes a file of the working tree
WriteFile ==
    /\ Edit
    /\ \E path \in Paths : \E f \in Files(path) \cup {NoFile} :
          /\ wt[path] # f
          /\ wt' = [wt EXCEPT ![path] = f]
    /\ UNCHANGED <<indexFile, objects, refs, HEAD, clock>>

\* clony stage <file>
StageFile ==
    /\ Edit
    /\ \E path \in Paths :
          /\ IsFile(wt, path)
          /\ indexFile' = stage_file(indexFile, wt, path)
    /\ UNCHANGED <<wt, objects, refs, HEAD, clock>>

\* the index file is written from outside: touched, or given a malformed line
WriteIndex ==
    /\ Edit
    /\ \/ /\ ~indexFile.exists
          /\ indexFile' = [exists |-> TRUE, lines |-> <<>>]
       \/ \E line \in JunkLines :
             indexFile' = [exists |-> TRUE, lines |-> Append(indexFile.lines, line)]
    /\ UNCHANGED <<wt, objects, refs, HEAD, clock>>

\* HEAD is rewritten from outside: attached to a branch, or detached at a commit
\* of the store or at an identifier that names no object
Checkout ==
    /\ Edit
    /\ \E target \in {SymbolicRef(n) : n \in RefNames} \cup Commits(objects) \cup {Bogus} :
          /\ target # HEAD
          /\ HEAD' = target
    /\ UNCHANGED <<wt, indexFile, objects, refs, clock>>

Next ==
    \/ \E p \in Procs : Start(p)
    \/ \E p \in Procs : BuildTree(p)
    \/ \E p \in Procs : GetHead(p)
    \/ \E p \in Procs : BuildCommit(p)
    \/ \E p \in Procs : AdvanceRef(p)
    \/ \E p \in Procs : ClearStaging(p)
    \/ WriteFile
    \/ StageFile
    \/ WriteIndex
    \/ Checkout

Spec == Init /\ [][Next]_vars

(* ============================ properties ============================== *)
\* a call of p has ended and the repository has not been touched since
Ended(p) == pre[p].called /\ pc[p] = "idle"

Committed(p) == Ended(p) /\ result[p][1] = "Committed"

Failed(p, steps) == Ended(p) /\ result[p][1] = "CommitFailed" /\ result[p][2] \in steps

Attached(head) == startswith_refs(get_head_ref(head))

RefsUnchanged(p) == refs = pre[p].refs /\ HEAD = pre[p].HEAD

DiskUnchanged(p) ==
    /\ objects = pre[p].objects
    /\ RefsUnchanged(p)
    /\ indexFile = pre[p].indexFile

\* C1: after a successful make_commit with HEAD attached to a branch, the branch
\* holds the identifier make_commit returned and HEAD is the same symbolic pointer
C1_AttachedAdvance ==
    \A p \in Procs :
        (Committed(p) /\ Attached(pre[p].HEAD)) =>
            /\ ret[p] # None
            /\ get_ref_hash(refs, get_head_ref(pre[p].HEAD)) = ret[p]
            /\ HEAD = pre[p].HEAD

C1_Witness ==
    \E p \in Procs : Committed(p) /\ Attached(pre[p].HEAD) /\ refs # pre[p].refs

\* C2: after a successful make_commit with HEAD detached, HEAD holds the identifier
\* make_commit returned, and so is still detached
C2_DetachedAdvance ==
    \A p \in Procs :
        (Committed(p) /\ ~Attached(pre[p].HEAD)) =>
            /\ ret[p] # None
            /\ HEAD = ret[p]
            /\ ~Attached(HEAD)

C2_Witness ==
    \E p \in Procs : Committed(p) /\ ~Attached(pre[p].HEAD) /\ HEAD # pre[p].HEAD

\* C3: with no repository found, make_commit ends at once with RepositoryNotFound,
\* whatever is staged, and the store, the references, HEAD and the index are as before
C3_NoRepo ==
    \A p \in Procs :
        (pre[p].called /\ ~pre[p].found) =>
            /\ pc[p] = "idle"
            /\ result[p] = <<"RepositoryNotFound", "">>
            /\ DiskUnchanged(p)

C3_Witness ==
    \E p \in Procs :
        /\ Ended(p) /\ ~pre[p].found
        /\ DOMAIN read_index_file(pre[p].indexFile) # {}

EmptyStaging(index) == ~index.exists \/ DOMAIN read_index_file(index) = {}

\* C4: with a repository found and the index absent or parsing to no entry,
\* make_commit ends at once with NothingStaged and nothing on disk has changed
C4_NothingStaged ==
    \A p \in Procs :
        (pre[p].called /\ pre[p].found /\ EmptyStaging(pre[p].indexFile)) =>
            /\ pc[p] = "idle"
            /\ result[p] = <<"NothingStaged", "">>
            /\ DiskUnchanged(p)

\* the index file exists and holds lines, none of which is an entry
C4_Witness ==
    \E p \in Procs :
        /\ Ended(p) /\ pre[p].found
        /\ pre[p].indexFile.exists
        /\ Len(pre[p].indexFile.lines) > 0
        /\ DOMAIN read_index_file(pre[p].indexFile) = {}

BeforeAdvance == {"tree", "head", "commit"}

\* what was in the store when the call began is still there, unchanged
Kept(p) ==
    \A id \in DOMAIN pre[p].objects :
        id \in DOMAIN objects /\ objects[id] = pre[p].objects[id]

\* C5: a call that fails in the tree build, the head resolution or the commit build
\* leaves every branch and HEAD as it found them; what it wrote stays in the store
C5_NoAdvanceOnFailure ==
    \A p \in Procs :
        Failed(p, BeforeAdvance) =>
            /\ RefsUnchanged(p)
            /\ Kept(p)
            /\ result[p][2] \in {"head", "commit"} => tree_hash[p] \in DOMAIN objects

C5_Witness ==
    \E p \in Procs :
        /\ Failed(p, {"commit"})
        /\ DOMAIN objects # DOMAIN pre[p].objects

(* ------------------------ reading the store --------------------------- *)
read_object(store, id) == decompress_content(store[id])

ObjectType(store, id) == read_object(store, id)[1]

ObjectPayload(store, id) == read_object(store, id)[3]

\* the identifiers on the parent lines of the commit c
ParentLines(store, c) ==
    LET lines == ObjectPayload(store, c)
    IN  {lines[i][2] : i \in {j \in 1..Len(lines) : lines[j][1] = "parent"}}

\* the identifier on the tree line of the commit c
TreeLine(store, c) == ObjectPayload(store, c)[1][2]

AsParents(head) == IF head = None THEN {} ELSE {head}

\* the tree t and everything under it is in the store
RECURSIVE TreeComplete(_, _)
TreeComplete(store, t) ==
    /\ t \in DOMAIN store
    /\ ObjectType(store, t) = "tree"
    /\ \A i \in 1..Len(ObjectPayload(store, t)) :
          LET e == ObjectPayload(store, t)[i]
          IN  /\ e[3] \in DOMAIN store
              /\ e[1] = "40000" => TreeComplete(store, e[3])

CommitComplete(store, c) ==
    /\ c \in DOMAIN store
    /\ ObjectType(store, c) = "commit"
    /\ TreeComplete(store, TreeLine(store, c))

\* what the branches and a detached HEAD point at
RefTargets ==
    {refs[n] : n \in RefNames} \cup (IF Attached(HEAD) THEN {} ELSE {HEAD})

\* the call of p is past its reference update
Advanced(p) ==
    pre[p].called /\ (pc[p] = "clear" \/ Committed(p) \/ Failed(p, {"clear"}))

\* the reference a call moves: the branch HEAD named when it began, or HEAD
CurrentTarget(p) ==
    IF Attached(pre[p].HEAD) THEN refs[get_head_ref(pre[p].HEAD)] ELSE HEAD

\* C6: the reference is updated last: until the update no reference has moved, and
\* whatever commit a reference points at is in the store with its tree and all the
\* objects under it
C6_ReferenceLast ==
    /\ \A p \in Procs :
          (pre[p].called /\ pc[p] \in {"tree", "head", "commit", "ref"}) =>
              RefsUnchanged(p)
    /\ \A p \in Procs :
          Advanced(p) =>
              CurrentTarget(p) = commit_hash[p] /\ CommitComplete(objects, commit_hash[p])
    /\ \A v \in RefTargets \ {None, Bogus} : CommitComplete(objects, v)

\* the reference has moved and the call has not yet returned
C6_Witness ==
    \E p \in Procs :
        /\ pc[p] = "clear"
        /\ commit_hash[p] \in RefTargets
        /\ commit_hash[p] \notin DOMAIN pre[p].objects

\* C7: a new commit's parent is what the head resolved to when the call began (no
\* parent line when that is None), and a reference only moves, in the reference
\* update, to that new child of its previous value
C7_Chaining ==
    \A p \in Procs :
        /\ Advanced(p) =>
              /\ commit_hash[p] \in DOMAIN objects
              /\ ParentLines(objects, commit_hash[p]) = AsParents(pre[p].head)
              /\ CurrentTarget(p) = commit_hash[p]
              /\ commit_hash[p] # pre[p].head
              /\ \A n \in RefNames :
                    refs[n] # pre[p].refs[n] => n = get_head_ref(pre[p].HEAD)
        /\ (pre[p].called /\ ~Advanced(p)) => RefsUnchanged(p)
        /\ Committed(p) => ret[p] = commit_hash[p]

\* a second commit: its parent is the first, which is in the store
C7_Witness ==
    \E p \in Procs :
        /\ Committed(p)
        /\ pre[p].head \in Commits(objects)
        /\ ParentLines(objects, ret[p]) = {pre[p].head}
        /\ ParentLines(objects, pre[p].head) = {}

\* from c, parent links lead through commits of the store, one parent each, none
\* met twice, to a commit without parent
RECURSIVE PathToRoot(_, _, _)
PathToRoot(store, c, seen) ==
    /\ c \in DOMAIN store
    /\ ObjectType(store, c) = "commit"
    /\ c \notin seen
    /\ Cardinality(ParentLines(store, c)) <= 1
    /\ \A q \in ParentLines(store, c) : PathToRoot(store, q, seen \cup {c})

\* C8 as claimed: from every commit of the store the parent links form a simple
\* path of commits of the store that ends at a root
C8_SimplePath == \A c \in Commits(objects) : PathToRoot(objects, c, {})

\* as PathToRoot, but the path may also end at an identifier that names no object
\* of the store
RECURSIVE PathToRootOrMissing(_, _, _)
PathToRootOrMissing(store, c, seen) ==
    /\ c \notin seen
    /\ Cardinality(ParentLines(store, c)) <= 1
    /\ \A q \in ParentLines(store, c) :
          IF q \in DOMAIN store
          THEN ObjectType(store, q) = "commit"
                   /\ PathToRootOrMissing(store, q, seen \cup {c})
          ELSE q = Bogus

\* C8 amended: from every commit of the store the parent links form a simple path,
\* one parent each, that ends at a root or at an identifier that names no object;
\* the only such identifier is the one HEAD was detached at from outside
C8_SimplePathOrMissing ==
    /\ \A c \in Commits(objects) : PathToRootOrMissing(objects, c, {})
    /\ \A v \in RefTargets \ {None, Bogus} : v \in Commits(objects)

\* a history of two commits
C8_Witness ==
    \E c \in Commits(objects) :
        \E q \in ParentLines(objects, c) :
            q \in Commits(objects) /\ ParentLines(objects, q) = {}

\* C9: the store only grows, and what is stored under an identifier never changes
C9_Immutable ==
    [][\A id \in DOMAIN objects :
          id \in DOMAIN objects' /\ objects'[id] = objects[id]]_vars

\* a call whose walk wrote a tree that was in the store already, and which then
\* added an object
C9_Witness ==
    \E p \in Procs :
        /\ Ended(p)
        /\ tree_hash[p] \in DOMAIN pre[p].objects
        /\ DOMAIN objects # DOMAIN pre[p].objects

\* the identifiers under which the store holds the blob of these bytes
BlobsOf(store, data) ==
    {id \in DOMAIN store : read_object(store, id) = frame("blob", data)}

\* the entry of the tree t for the name
EntryOf(store, t, name) ==
    LET es == ObjectPayload(store, t)
    IN  es[CHOOSE i \in 1..Len(es) : es[i][2] = name]

SameContent ==
    /\ IsFile(wt, <<1>>)
    /\ IsFile(wt, <<3, 1>>)
    /\ wt[<<1>>].data = wt[<<3, 1>>].data

\* C10: the store never holds the bytes of a file under two identifiers; when two
\* paths hold the same bytes the walk succeeds, the store holds one blob for them
\* and both tree entries carry its identifier
C10_ContentAddressing ==
    /\ \A data \in FileData : Cardinality(BlobsOf(objects, data)) <= 1
    /\ \A p \in Procs :
          (tree_hash[p] # None /\ SameContent) =>
              LET top == EntryOf(objects, tree_hash[p], 1)
                  sub == EntryOf(objects, tree_hash[p], 3)
                  low == EntryOf(objects, sub[3], 1)
              IN  /\ top[3] = low[3]
                  /\ BlobsOf(objects, wt[<<1>>].data) = {top[3]}

C10_Witness ==
    \E p \in Procs : Committed(p) /\ SameContent

(* ----------------------- the files of the store ----------------------- *)
\* the characters of an identifier: the digest stands for the framed bytes, so
\* its characters are the type, the length and then the payload
hexdigest(id) == <<id[2][1], id[2][2]>> \o id[2][3]

\* variant: the file name starts one character too late
object_file_path_short(id) ==
    <<"objects", SubSeq(hexdigest(id), 1, 2), SubSeq(hexdigest(id), 4, Len(hexdigest(id)))>>

\* .git/objects/<sha1[:2]>/<sha1[2:]>
object_file_path(id) ==
    <<"objects", SubSeq(hexdigest(id), 1, 2), SubSeq(hexdigest(id), 3, Len(hexdigest(id)))>>

\* the files under .git/objects: path -> stored bytes
ObjectFiles(store) ==
    [path \in {object_file_path(id) : id \in DOMAIN store} |->
        store[CHOOSE id \in DOMAIN store : object_file_path(id) = path]]

ObjectNotFound == <<"ObjectNotFound">>

\* the file at the path of the identifier, decompressed
read_file(files, id) ==
    IF object_file_path(id) \in DOMAIN files
    THEN decompress_content(files[object_file_path(id)])
    ELSE ObjectNotFound

\* read(root, identifier)
read_object_file(store, id) == read_file(ObjectFiles(store), id)

ObjectTypes == {"blob", "tree", "commit"}

\* the payloads handed to write_object_file: no byte, one byte, two bytes
Payloads == {<<>>, <<1>>, <<2>>, <<1, 2>>}

\* write_object_file(repo_path, content, object_type)
WriteObject ==
    /\ \E object_type \in ObjectTypes, content \in Payloads :
          objects' = write_object_file(objects, content, object_type)
    /\ UNCHANGED <<wt, indexFile, refs, HEAD, clock, pc, message, tree_hash,
                   parent_hash, commit_hash, result, ret, errors, pre, nOps, nEdits>>

SpecStore == Init /\ [][WriteObject]_vars

Trees(store) == {id \in DOMAIN store : id[2][1] = "tree"}

\* the directories of the working tree, the root among them
Dirs(w) ==
    {<<>>} \cup UNION {{SubSeq(q, 1, n) : n \in 1..(Len(q) - 1)} :
                          q \in {x \in Paths : w[x] # NoFile}}

\* C12: the tree a call built is the tree a rebuild of the unmodified working
\* tree gives now, after the call has written to .git, whichever way round the
\* filesystem lists each directory, and is the tree its commit names; every tree
\* of the store has its entries in ascending order of name and none for .git
C12_TreeDeterminism ==
    /\ \A p \in Procs :
          tree_hash[p] # None =>
              /\ \A rev \in BOOLEAN : tree_hash[p] = create_tree_object(wt, <<>>, rev)
              /\ \A dir \in Dirs(wt) :
                    create_tree_object(wt, dir, TRUE) = create_tree_object(wt, dir, FALSE)
              /\ commit_hash[p] # None => TreeLine(objects, commit_hash[p]) = tree_hash[p]
    /\ \A t \in Trees(objects) :
          LET entries == ObjectPayload(objects, t)
          IN  /\ \A i \in 1..Len(entries) : entries[i][2] # GitDir
              /\ \A i, j \in 1..Len(entries) : i < j => entries[i][2] < entries[j][2]

\* a second commit of a working tree of two entries, left as the first commit
\* found it: both commits name the same tree
C12_Witness ==
    \E p \in Procs :
        /\ Committed(p)
        /\ pre[p].head \in Commits(objects)
        /\ TreeLine(objects, pre[p].head) = TreeLine(objects, ret[p])
        /\ Len(ObjectPayload(objects, tree_hash[p])) = 2

(* --------------------- staging as a boolean gate ---------------------- *)
\* the identifier the tree t holds for the path, None when it holds no entry
RECURSIVE Lookup(_, _, _)
Lookup(store, t, path) ==
    LET entries == ObjectPayload(store, t)
        hits == {i \in 1..Len(entries) : entries[i][2] = Head(path)}
    IN  IF hits = {} THEN None
        ELSE LET e == entries[CHOOSE i \in hits : TRUE]
             IN  IF Len(path) = 1 THEN e[3] ELSE Lookup(store, e[3], Tail(path))

\* the mapping the call parsed from the index
Staged(p) == read_index_file(pre[p].indexFile)

\* C13: the staging mapping is only a gate: a call gets as far as a commit only
\* when the mapping is non-empty, and the tree of its commit is the tree of the
\* working tree as it is on disk, whatever is staged: it holds for each file the
\* blob of the file's current bytes, and nothing for a path that holds no file
C13_StagingGate ==
    \A p \in Procs :
        commit_hash[p] # None =>
            LET t == TreeLine(objects, commit_hash[p])
            IN  /\ DOMAIN Staged(p) # {}
                /\ t = tree_hash[p]
                /\ t = ObjectId("tree", tree_payload(wt, <<>>, FALSE))
                /\ \A path \in Paths :
                      Lookup(objects, t, path) =
                          IF IsFile(wt, path)
                          THEN calculate_sha1_hash(frame("blob", wt[path].data))
                          ELSE None

\* a commit made with a file that was staged and has been modified since
C13_Witness ==
    \E p \in Procs :
        /\ Committed(p)
        /\ \E path \in DOMAIN Staged(p) :
              IsFile(wt, path) /\ Staged(p)[path] # create_blob_object(wt, path)

(* ------------------------ reading the index file ---------------------- *)
\* the lines an index file may hold: entries (two of them for one path), a path
\* alone, a path with two identifiers
IndexLines ==
    {<<<<1>>, ObjectId("blob", <<>>)>>, <<<<1>>, ObjectId("blob", <<1>>)>>,
     <<<<3, 1>>, ObjectId("blob", <<>>)>>,
     <<<<1>>>>, <<<<1>>, ObjectId("blob", <<>>), ObjectId("blob", <<1>>)>>}

\* the index files of at most MaxLines lines, and no index file
IndexFiles ==
    {NoIndex} \cup
    {[exists |-> TRUE, lines |-> ls] :
        ls \in UNION {[1..n -> IndexLines] : n \in 0..MaxLines}}

\* a repository after `clony init` whose index file holds whatever was written
\* to it
InitIndex ==
    /\ indexFile \in IndexFiles
    /\ wt = [p \in Paths |-> NoFile]
    /\ objects = <<>>
    /\ refs = [n \in RefNames |-> None]
    /\ HEAD = SymbolicRef(<<"refs/", "heads/main">>)
    /\ clock = 0
    /\ pc = [p \in Procs |-> "idle"]
    /\ message = Blank("")
    /\ tree_hash = Blank(None)
    /\ parent_hash = Blank(None)
    /\ commit_hash = Blank(None)
    /\ result = Blank(NoResult)
    /\ ret = Blank(None)
    /\ errors = Blank(0)
    /\ pre = Blank(NoSnapshot)
    /\ nOps = 0
    /\ nEdits = 0

\* make_commit is called on it, one call after the other
NextIndex ==
    \/ \E p \in Procs : Start(p)
    \/ \E p \in Procs : BuildTree(p)
    \/ \E p \in Procs : GetHead(p)
    \/ \E p \in Procs : BuildCommit(p)
    \/ \E p \in Procs : AdvanceRef(p)
    \/ \E p \in Procs : ClearStaging(p)

SpecIndex == InitIndex /\ [][NextIndex]_vars

\* the lines of the index file that hold exactly two tokens
TwoTokenLines(index) == {i \in 1..Len(index.lines) : Len(index.lines[i]) = 2}

\* C14: the mapping read from the index file holds an entry for the path of every
\* line of exactly two tokens, and one entry only per path, whose identifier is
\* that of the last such line; lines of any other token count add nothing; no
\* index file gives the empty mapping; and a call that finds the repository goes
\* on to build a tree exactly when the mapping it read is not empty
C14_IndexParse ==
    LET d == read_index_file(indexFile)
        lines == indexFile.lines
    IN  /\ ~indexFile.exists => DOMAIN d = {}
        /\ DOMAIN d = {lines[i][1] : i \in TwoTokenLines(indexFile)}
        /\ \A i \in TwoTokenLines(indexFile) :
              (\A j \in TwoTokenLines(indexFile) : lines[j][1] = lines[i][1] => j <= i)
                  => d[lines[i][1]] = lines[i][2]
        /\ \A p \in Procs :
              (pre[p].called /\ pre[p].found) =>
                  /\ result[p][1] = "NothingStaged" <=> DOMAIN Staged(p) = {}
                  /\ (pc[p] # "idle" \/ result[p][1] \in {"Committed", "CommitFailed"})
                        <=> DOMAIN Staged(p) # {}

\* a call has passed the gate on an index file of one entry and one line that is
\* not an entry
C14_Witness ==
    \E p \in Procs :
        /\ pc[p] = "tree"
        /\ Cardinality(TwoTokenLines(indexFile)) = 1
        /\ Len(indexFile.lines) = 2

(* --------------------------- fatal conditions ------------------------- *)
Outcomes == {"RepositoryNotFound", "NothingStaged", "CommitFailed", "Committed"}

Steps == {"tree", "head", "commit", "ref", "clear"}

\* C15: a call logs no error while it runs and is over as soon as it has logged
\* one; it ends in one of four ways; ending any way but Committed it has logged
\* exactly one error and returned nothing, the error of a CommitFailed naming the
\* step that raised; ending Committed it has logged no error and returned the
\* identifier of its commit
C15_ReportedOnce ==
    \A p \in Procs :
        pre[p].called =>
            /\ errors[p] <= 1
            /\ pc[p] # "idle" => errors[p] = 0 /\ result[p] = NoResult /\ ret[p] = None
            /\ pc[p] = "idle" =>
                  /\ result[p][1] \in Outcomes
                  /\ result[p][1] = "CommitFailed" <=> result[p][2] \in Steps
                  /\ result[p][1] # "Committed" => errors[p] = 1 /\ ret[p] = None
                  /\ result[p][1] = "Committed" =>
                        /\ errors[p] = 0
                        /\ ret[p] # None
                        /\ ret[p] = commit_hash[p]
                        /\ ret[p] \in Commits(objects)

\* a call whose commit build raised: it had written a tree and has ended
C15_Witness ==
    \E p \in Procs :
        /\ Failed(p, {"commit"})
        /\ errors[p] = 1
        /\ tree_hash[p] \in DOMAIN objects

(* ------------------------- clearing the staging ----------------------- *)
\* C16: after a successful call the index file exists and holds no line, and the
\* reference is at the commit returned; the index is as the call found it for as
\* long as the call runs, the reference update included, and whenever the call
\* fails; so it is cleared only by a call that has advanced the reference
C16_ClearedLast ==
    \A p \in Procs :
        pre[p].called =>
            /\ Committed(p) =>
                  /\ indexFile.exists
                  /\ indexFile.lines = <<>>
                  /\ DOMAIN read_index_file(indexFile) = {}
                  /\ CurrentTarget(p) = ret[p]
            /\ pc[p] # "idle" => indexFile = pre[p].indexFile
            /\ Failed(p, Steps) =>
                  /\ indexFile = pre[p].indexFile
                  /\ DOMAIN read_index_file(indexFile) # {}
            /\ indexFile # pre[p].indexFile => Committed(p)

\* a successful call that found an index file of two lines
C16_Witness ==
    \E p \in Procs :
        /\ Committed(p)
        /\ Len(pre[p].indexFile.lines) = 2
        /\ indexFile.lines = <<>>

(* ------------------- the reference and the outcome -------------------- *)
\* the value the reference a call moves had when the call began
PreTarget(p) ==
    IF Attached(pre[p].HEAD) THEN pre[p].refs[get_head_ref(pre[p].HEAD)] ELSE pre[p].HEAD

\* C17: a call that has ended ended Committed exactly when the current reference
\* was advanced to its new commit, and a call that ended any other way has left
\* every branch and HEAD at their values from before the call
C17_ReferenceTellsOutcome ==
    \A p \in Procs :
        Ended(p) =>
            /\ Committed(p) <=>
                  (commit_hash[p] # None /\ CurrentTarget(p) = commit_hash[p]
                      /\ CurrentTarget(p) # PreTarget(p))
            /\ ~Committed(p) => RefsUnchanged(p) /\ CurrentTarget(p) = PreTarget(p)

\* clear_staging_area raised: the call has ended failed, the branch is at the new
\* commit and the index is as it was
C17_Witness ==
    \E p \in Procs :
        /\ Failed(p, {"clear"})
        /\ errors[p] = 1
        /\ Attached(pre[p].HEAD)
        /\ CurrentTarget(p) = commit_hash[p]
        /\ CurrentTarget(p) # PreTarget(p)
        /\ indexFile = pre[p].indexFile

(* ------------------------------ crashes ------------------------------- *)
\* a working tree that holds a.txt alone
OneFile(data) ==
    [q \in Paths |-> IF q = <<1>> THEN [mode |-> ModeOf(q), data |-> data] ELSE NoFile]

\* the commit an earlier call made of the empty a.txt, and the store it left
EarlierCommit ==
    create_commit_object(create_tree_object(OneFile(<<>>), <<>>, FALSE), None, Author, 0,
                         "first")

EarlierStore ==
    CommitStore(WriteAll(<<>>, tree_writes(OneFile(<<>>), <<>>, FALSE)),
                commit_payload(create_tree_object(OneFile(<<>>), <<>>, FALSE), None,
                               Author, 0, "first"))

\* a repository with a.txt staged: fresh, or with one commit on main and HEAD
\* attached to main or detached at that commit
InitCrash ==
    /\ \E data \in FileData :
          /\ wt = OneFile(data)
          /\ indexFile = stage_file(NoIndex, OneFile(data), <<1>>)
    /\ \/ /\ objects = <<>>
          /\ refs = [n \in RefNames |-> None]
          /\ HEAD = SymbolicRef(<<"refs/", "heads/main">>)
       \/ /\ objects = EarlierStore
          /\ refs = [n \in RefNames |->
                        IF n = <<"refs/", "heads/main">> THEN EarlierCommit ELSE None]
          /\ HEAD \in {SymbolicRef(<<"refs/", "heads/main">>), EarlierCommit}
    /\ clock = 0
    /\ pc = [p \in Procs |-> "idle"]
    /\ message = Blank("")
    /\ tree_hash = Blank(None)
    /\ parent_hash = Blank(None)
    /\ commit_hash = Blank(None)
    /\ result = Blank(NoResult)
    /\ ret = Blank(None)
    /\ errors = Blank(0)
    /\ pre = Blank(NoSnapshot)
    /\ nOps = 0
    /\ nEdits = 0

\* the process stops where it is: no handler runs, nothing more is written
Crash(p) ==
    /\ pc[p] \in Steps
    /\ pc' = [pc EXCEPT ![p] = "crashed"]
    /\ result' = [result EXCEPT ![p] = <<"Crashed", pc[p]>>]
    /\ UNCHANGED <<disk, clock, locals, ret, errors, pre, nOps, nEdits>>

\* make_commit is called while no other call runs
Call(p) ==
    /\ \A q \in Procs : pc[q] \in {"idle", "crashed"}
    /\ \E msg \in Messages, found \in BOOLEAN : Enter(p, msg, found)

NextCrash ==
    \/ \E p \in Procs : Call(p)
    \/ \E p \in Procs : BuildTree(p)
    \/ \E p \in Procs : GetHead(p)
    \/ \E p \in Procs : BuildCommit(p)
    \/ \E p \in Procs : AdvanceRef(p)
    \/ \E p \in Procs : ClearStaging(p)
    \/ \E p \in Procs : Crash(p)

SpecCrash == InitCrash /\ [][NextCrash]_vars

\* every identifier met following parent lines from these
RECURSIVE Reach(_, _, _)
Reach(store, frontier, seen) ==
    IF frontier \subseteq seen THEN seen
    ELSE Reach(store,
               UNION {IF c \in DOMAIN store THEN ParentLines(store, c) ELSE {} :
                         c \in frontier \ seen},
               seen \cup frontier)

Reachable == Reach(objects, RefTargets \ {None}, {})

\* the call of p stopped between the commit build and the reference update
CrashedBeforeRef(p) == result[p] = <<"Crashed", "ref">>

\* the call made next after the call of p stopped, if it is the last call made:
\* a stopped call keeps its slot
Rerun(p) == {q \in Procs : q > p /\ pre[q].called /\ pre[q].n = pre[p].n + 1}

\* the call of q has written the reference
PastRef(q) == Advanced(q) \/ result[q] = <<"Crashed", "clear">>

\* C18: when a call has stopped after writing its commit and before the reference
\* update, the commit is in the store and, until the next call writes the
\* reference, every branch, HEAD and the index are as the stopped call found them
\* and the commit is reachable from no reference; the next call finds them so, is
\* let through by the staging check, and once it has written the reference the
\* reference is at its commit, whose parent is the head from before the crash;
\* returning, it has cleared the index
C18_CrashRecovery ==
    \A p \in Procs :
        CrashedBeforeRef(p) =>
            /\ commit_hash[p] \in Commits(objects)
            /\ (nOps = pre[p].n \/ \E q \in Rerun(p) : ~PastRef(q)) =>
                  /\ RefsUnchanged(p)
                  /\ indexFile = pre[p].indexFile
                  /\ commit_hash[p] \notin Reachable
            /\ \A q \in Rerun(p) :
                  /\ pre[q].refs = pre[p].refs
                  /\ pre[q].HEAD = pre[p].HEAD
                  /\ pre[q].indexFile = pre[p].indexFile
                  /\ pre[q].found => result[q][1] # "NothingStaged"
                  /\ PastRef(q) =>
                        /\ CurrentTarget(q) = commit_hash[q]
                        /\ ParentLines(objects, commit_hash[q]) = AsParents(pre[p].head)
                  /\ Committed(q) =>
                        /\ ret[q] = commit_hash[q]
                        /\ indexFile = clear_staging_area(pre[p].indexFile)

\* a call stopped before the reference update; the call made again a second later
\* has returned, the branch is at its commit, a child of the commit from before
\* the crash, and the commit of the stopped call is left unreferenced
C18_Witness ==
    \E p \in Procs : \E q \in Rerun(p) :
        /\ CrashedBeforeRef(p)
        /\ Committed(q)
        /\ Attached(HEAD)
        /\ pre[p].head \in Commits(objects)
        /\ ParentLines(objects, ret[q]) = {pre[p].head}
        /\ commit_hash[p] \in DOMAIN objects
        /\ commit_hash[p] \notin Reachable

(* ---------------------------- concurrency ----------------------------- *)
\* make_commit is called, whether or not another call is running
ConcurrentCall(p) == \E msg \in Messages, found \in BOOLEAN : Enter(p, msg, found)

\* the steps of the calls interleave in any order
NextConcurrent ==
    \/ \E p \in Procs : ConcurrentCall(p)
    \/ \E p \in Procs : BuildTree(p)
    \/ \E p \in Procs : GetHead(p)
    \/ \E p \in Procs : BuildCommit(p)
    \/ \E p \in Procs : AdvanceRef(p)
    \/ \E p \in Procs : ClearStaging(p)

SpecConcurrent == InitCrash /\ [][NextConcurrent]_vars

\* the call of p writes the reference in this step
UpdatesRef(p) == pc[p] = "ref" /\ pc'[p] = "clear"

\* C19: with HEAD attached, a reference update leaves the branch at the commit of
\* the call that makes it, whatever the branch held, and leaves the other branches
\* alone; nothing but a reference update changes a branch; every commit a call
\* has built is in the store after every step; and no step removes an object of
\* the store or changes what is stored under its identifier
C19_LastWriterWins ==
    [][/\ \A p \in Procs :
             (UpdatesRef(p) /\ Attached(HEAD)) =>
                 /\ refs'[get_head_ref(HEAD)] = commit_hash[p]
                 /\ \A n \in RefNames \ {get_head_ref(HEAD)} : refs'[n] = refs[n]
                 /\ HEAD' = HEAD
       /\ refs' # refs => \E p \in Procs : UpdatesRef(p)
       /\ \A p \in Procs :
             commit_hash'[p] # None =>
                 /\ commit_hash'[p] \in Commits(objects')
                 /\ read_object(objects', commit_hash'[p])
                        = frame("commit", ObjectPayload(objects', commit_hash'[p]))
       /\ \A id \in DOMAIN objects :
             id \in DOMAIN objects' /\ objects'[id] = objects[id]]_vars

\* two calls have run at once on main and both have returned; each built a commit
\* on the same parent; the branch is at the commit of the first call, which wrote
\* it last, and the commit of the second is in the store, referenced by nothing
C19_Witness ==
    /\ Committed(1) /\ Committed(2)
    /\ Attached(HEAD)
    /\ pre[1].head = pre[2].head
    /\ pre[1].head \in Commits(objects)
    /\ ret[1] # ret[2]
    /\ refs[get_head_ref(HEAD)] = ret[1]
    /\ ret[2] \in Commits(objects)
    /\ ret[2] \notin Reachable

(* ---------------------- a commit after a commit ----------------------- *)
\* make_commit is called in this step
CallStarts == nOps' = nOps + 1

\* the index turns from holding no entry to holding one in this step
BecomesStaged == EmptyStaging(indexFile) /\ ~EmptyStaging(indexFile')

\* C20: when make_commit is called in the state a successful call has left, in
\* the same repository, the new call ends at once with NothingStaged, returns
\* nothing, and leaves the store, every branch, HEAD and the index as they were,
\* the current reference still at the commit the first call returned; and the
\* index comes to hold an entry again only by a file being staged
C20_NothingStagedAfterCommit ==
    [][/\ \A p \in Procs : \A q \in Procs :
             (Committed(p) /\ CallStarts /\ FirstIdle(q) /\ pre'[q].found) =>
                 /\ pc'[q] = "idle"
                 /\ result'[q] = <<"NothingStaged", "">>
                 /\ errors'[q] = 1
                 /\ ret'[q] = None
                 /\ objects' = objects
                 /\ refs' = refs /\ HEAD' = HEAD
                 /\ indexFile' = indexFile
                 /\ ret[p] = IF Attached(HEAD') THEN refs'[get_head_ref(HEAD')] ELSE HEAD'
       /\ BecomesStaged =>
             \E path \in Paths :
                 IsFile(wt, path) /\ indexFile' = stage_file(indexFile, wt, path)]_vars

\* a file was written and staged, a first call committed it, and the call made
\* right after it has ended with NothingStaged
C20_Witness ==
    \E p \in Procs :
        /\ nOps = 2 /\ nEdits = 2
        /\ Ended(p)
        /\ pre[p].found
        /\ result[p] = <<"NothingStaged", "">>
        /\ pre[p].head \in Commits(objects)
        /\ CurrentTarget(p) = pre[p].head
        /\ pre[p].indexFile.exists
        /\ pre[p].indexFile.lines = <<>>

====
